---- MODULE Spec2Model ----
(***************************************************************************)
(* A model of the justshoot physics engine: the Simulator of src/jlib.rs   *)
(* (the engine the binary src/main.rs drives) and the older Simulator of   *)
(* src/lib.rs (the library crate root).                                    *)
(*                                                                         *)
(* Numbers.  The program computes in f64.  The model computes in exact     *)
(* rational arithmetic: a number is a pair <<n, d>> in lowest terms with   *)
(* d > 0.  Rounding is therefore not modelled; every equality below is an  *)
(* equality of real numbers.  The only irrational quantity of the passes   *)
(* modelled here is the norm of a separation vector; it is carried by its  *)
(* square (see Norm), which is exact because the code uses the norm only   *)
(* in comparisons with non-negative numbers and as the divisor of a        *)
(* unit normal that is then multiplied by itself.                          *)
(***************************************************************************)
EXTENDS Integers, Sequences, FiniteSets, TLC

(***************************************************************************)
(* Bounds of the model.                                                    *)
(***************************************************************************)
\* progress() calls explored from a single-ball drop
MaxDropSteps == 22
\* progress() calls explored from a two- or three-ball configuration
MaxPairSteps == 2
\* drop heights above the resting height are k/4 for k in 1 .. MaxDropQuarters
MaxDropQuarters == 12
\* frames of GameState::update followed from a host configuration
MaxHostFrames == 3

(***************************************************************************)
(* Program constants.                                                      *)
(***************************************************************************)
\* Simulator::new: t_hard_limit: 30.
T_HARD_LIMIT == 30

(***************************************************************************)
(* Exact rational numbers (the model of f64).                              *)
(***************************************************************************)
RECURSIVE GCD(_, _)
GCD(a, b) == IF b = 0 THEN a ELSE GCD(b, a % b)

Abs(n) == IF n < 0 THEN -n ELSE n

\* the rational n/d (d # 0) in lowest terms with a positive denominator
Q(n, d) ==
    LET g == GCD(Abs(n), Abs(d))
        s == IF d < 0 THEN -1 ELSE 1
    IN  <<(s * n) \div g, (s * d) \div g>>

I(n) == <<n, 1>>
Zero == <<0, 1>>
One == <<1, 1>>

\* the products are taken after cancelling common factors
Add(a, b) ==
    LET g == GCD(a[2], b[2])
    IN  Q(a[1] * (b[2] \div g) + b[1] * (a[2] \div g), (a[2] \div g) * b[2])
Neg(a) == <<-a[1], a[2]>>
Sub(a, b) == Add(a, Neg(b))
Mul(a, b) ==
    LET g1 == GCD(Abs(a[1]), b[2])
        g2 == GCD(Abs(b[1]), a[2])
    IN  <<(a[1] \div g1) * (b[1] \div g2), (a[2] \div g2) * (b[2] \div g1)>>
\* a / b for b # 0
Div(a, b) == Mul(a, Q(b[2], b[1]))
Lt(a, b) ==
    LET g == GCD(a[2], b[2])
    IN  a[1] * (b[2] \div g) < b[1] * (a[2] \div g)
Leq(a, b) ==
    LET g == GCD(a[2], b[2])
    IN  a[1] * (b[2] \div g) <= b[1] * (a[2] \div g)
Gt(a, b) == Lt(b, a)
Geq(a, b) == Leq(b, a)
Max(a, b) == IF Lt(a, b) THEN b ELSE a

(***************************************************************************)
(* JVector3 (nalgebra Vector3<f64>).                                       *)
(***************************************************************************)
Vec(x, y, z) == [x |-> x, y |-> y, z |-> z]
IVec(x, y, z) == Vec(I(x), I(y), I(z))
zeros == IVec(0, 0, 0)
VAdd(a, b) == Vec(Add(a.x, b.x), Add(a.y, b.y), Add(a.z, b.z))
VSub(a, b) == Vec(Sub(a.x, b.x), Sub(a.y, b.y), Sub(a.z, b.z))
VScale(v, k) == Vec(Mul(v.x, k), Mul(v.y, k), Mul(v.z, k))
dot(a, b) == Add(Add(Mul(a.x, b.x), Mul(a.y, b.y)), Mul(a.z, b.z))

\* r.norm(): a non-negative real, carried by its square
Norm(r) == [sq |-> dot(r, r)]
\* nrm > 0.
NormPositive(nrm) == Gt(nrm.sq, Zero)
\* nrm <= c for a number c >= 0
NormLeq(nrm, c) == Leq(nrm.sq, Mul(c, c))
NormLt(nrm, c) == Lt(nrm.sq, Mul(c, c))

\* r / r_norm (r_norm > 0): the unit vector dir / sqrt(sq)
UnitNormal(r, nrm) == [dir |-> r, sq |-> nrm.sq]
\* u.dot(&unit_normal) * unit_normal
\*   = ((u . dir) / sqrt(sq)) * (dir / sqrt(sq)) = ((u . dir) / sq) * dir
NormalComponent(u, n) == VScale(n.dir, Div(dot(u, n.dir), n.sq))

(***************************************************************************)
(* geometry.rs                                                             *)
(***************************************************************************)
\* (u1 - u2).dot(&r) / r.norm(): the quotient of a number by a norm
calc_norm_apprch_v(p1, p2, u1, u2) ==
    LET r == VSub(p2, p1)
    IN  [num |-> dot(VSub(u1, u2), r), nrm |-> Norm(r)]

\* q > 0. for a quotient q = num / norm; 0/0 is NaN, and NaN > 0. is false
QuotPositive(q) == NormPositive(q.nrm) /\ Gt(q.num, Zero)

(***************************************************************************)
(* Rotations (nalgebra UnitQuaternion<f64>).  A unit quaternion is carried *)
(* as the word of axis-angle rotations it was composed from, leftmost      *)
(* applied last; two adjacent rotations about the same axis are one        *)
(* rotation by the sum of the angles, and a rotation by 0 is the identity. *)
(***************************************************************************)
identity == <<>>

from_axis_angle(axis, angle) ==
    IF angle = Zero THEN identity ELSE <<[axis |-> axis, angle |-> angle]>>

\* a * b: the rotation b followed by the rotation a
QuatMul(a, b) ==
    IF a = identity THEN b
    ELSE IF b = identity THEN a
    ELSE IF a[Len(a)].axis = b[1].axis
    THEN LET sum == Add(a[Len(a)].angle, b[1].angle)
         IN  SubSeq(a, 1, Len(a) - 1)
               \o (IF sum = Zero THEN <<>> ELSE <<[axis |-> b[1].axis, angle |-> sum]>>)
               \o Tail(b)
    ELSE a \o b

\* the non-negative rational whose square is q (q the square of a rational)
RSqrt(q) ==
    <<CHOOSE k \in 0 .. q[1] : k * k = q[1], CHOOSE k \in 1 .. q[2] : k * k = q[2]>>

\* JUnitVector3::new_normalize(v), for v of rational norm
new_normalize(v) == VScale(v, Div(One, RSqrt(dot(v, v))))

cross(a, b) ==
    Vec(Sub(Mul(a.y, b.z), Mul(a.z, b.y)),
        Sub(Mul(a.z, b.x), Mul(a.x, b.z)),
        Sub(Mul(a.x, b.y), Mul(a.y, b.x)))

\* <<cos, sin>> of an angle, by the rational parametrisation of the circle
\* with half-angle tangent angle/2: exactly <<1, 0>> at 0, and a point of the
\* unit circle (cos^2 + sin^2 = 1) at every angle
CosSin(angle) ==
    LET h == Div(angle, I(2))
        hh == Mul(h, h)
    IN  <<Div(Sub(One, hh), Add(One, hh)), Div(Mul(I(2), h), Add(One, hh))>>

\* the point p turned about the unit axis k by the angle (Rodrigues)
RotateAbout(p, k, angle) ==
    LET cs == CosSin(angle)
    IN  VAdd(VAdd(VScale(p, cs[1]), VScale(cross(k, p), cs[2])),
             VScale(k, Mul(dot(k, p), Sub(One, cs[1]))))

\* rotate_point(&p, &q): p turned by the rotation q
RECURSIVE rotate_point(_, _)
rotate_point(p, q) ==
    IF q = identity THEN p
    ELSE rotate_point(RotateAbout(p, q[Len(q)].axis, q[Len(q)].angle),
                      SubSeq(q, 1, Len(q) - 1))

(***************************************************************************)
(* jlib.rs: Ball                                                           *)
(***************************************************************************)
Ball(pos, u, rot, urot_axis, urot_angle) ==
    [pos |-> pos, u |-> u, rot |-> rot, urot_axis |-> urot_axis,
     urot_angle |-> urot_angle]

\* Ball::apply_velocities
apply_velocities(ball, step) ==
    LET angle == Mul(ball.urot_angle, step)
        urot == from_axis_angle(ball.urot_axis, angle)
    IN  [ball EXCEPT !.pos = VAdd(ball.pos, VScale(ball.u, step)),
                     !.rot = QuatMul(urot, ball.rot)]

(***************************************************************************)
(* jlib.rs: Simulator.  The passes are functions of the ball vector bs,    *)
(* the WorldConf wc and the timestep ts; balls are numbered from 1.        *)
(***************************************************************************)
\* JVector3::new(0., 0., 1.): the cloth normal of a BallClothCollisionEvent
ClothNormal == IVec(0, 0, 1)

\* the factor 0.0001 of adjust_ball_for_spin
SpinFactor == <<1, 10000>>

\* the exchange with comp_b negated, as in lib.rs
adjust_for_ball_to_ball_collisions_negated(bs, wc, coll_ev) ==
    LET comp_a == NormalComponent(bs[coll_ev.i].u, coll_ev.unit_normal)
        comp_b == VScale(NormalComponent(bs[coll_ev.j].u, coll_ev.unit_normal),
                         I(-1))
    IN  [bs EXCEPT
           ![coll_ev.i].u = VAdd(VSub(bs[coll_ev.i].u, comp_a),
                                 VScale(comp_b, wc.ball_ball_rest)),
           ![coll_ev.j].u = VAdd(VSub(bs[coll_ev.j].u, comp_b),
                                 VScale(comp_a, wc.ball_ball_rest))]

\* Simulator::adjust_for_ball_to_ball_collisions
adjust_for_ball_to_ball_collisions(bs, wc, coll_ev) ==
    LET comp_a == NormalComponent(bs[coll_ev.i].u, coll_ev.unit_normal)
        comp_b == NormalComponent(bs[coll_ev.j].u, coll_ev.unit_normal)
    IN  [bs EXCEPT
           ![coll_ev.i].u = VAdd(VSub(bs[coll_ev.i].u, comp_a),
                                 VScale(comp_b, wc.ball_ball_rest)),
           ![coll_ev.j].u = VAdd(VSub(bs[coll_ev.j].u, comp_b),
                                 VScale(comp_a, wc.ball_ball_rest))]

\* the test with r_norm < 2. * ball_radius, as in lib.rs
BallBallCollidingStrict(bs, wc, i, j) ==
    LET norm_apprch_v ==
            calc_norm_apprch_v(bs[i].pos, bs[j].pos, bs[i].u, bs[j].u)
        r_norm == Norm(VSub(bs[j].pos, bs[i].pos))
    IN  /\ NormPositive(r_norm)
        /\ QuotPositive(norm_apprch_v)
        /\ NormLt(r_norm, Mul(I(2), wc.ball_radius))

\* the test of check_ball_to_ball_collisions on the pair (i, j):
\* r_norm > 0., norm_apprch_v > 0., r_norm <= 2. * ball_radius
BallBallColliding(bs, wc, i, j) ==
    LET norm_apprch_v ==
            calc_norm_apprch_v(bs[i].pos, bs[j].pos, bs[i].u, bs[j].u)
        r_norm == Norm(VSub(bs[j].pos, bs[i].pos))
    IN  /\ NormPositive(r_norm)
        /\ QuotPositive(norm_apprch_v)
        /\ NormLeq(r_norm, Mul(I(2), wc.ball_radius))

\* the BallBallCollisionEvent of the pair (i, j)
BallBallCollisionEvent(bs, i, j) ==
    LET r == VSub(bs[j].pos, bs[i].pos)
    IN  [i |-> i, j |-> j, unit_normal |-> UnitNormal(r, Norm(r))]

\* the loop body of check_ball_to_ball_collisions for the pair (i, j)
BallBallPair(bs, wc, i, j) ==
    IF BallBallColliding(bs, wc, i, j)
    THEN adjust_for_ball_to_ball_collisions(bs, wc, BallBallCollisionEvent(bs, i, j))
    ELSE bs

\* the loops  for i in 0 .. n_balls-1 { for j in i+1 .. n_balls { ... } }
\* of check_ball_to_ball_collisions, from the pair (i, j) on
RECURSIVE BallBallLoop(_, _, _, _)
BallBallLoop(bs, wc, i, j) ==
    IF i > Len(bs) - 1 THEN bs
    ELSE IF j > Len(bs) THEN BallBallLoop(bs, wc, i + 1, i + 2)
    ELSE BallBallLoop(BallBallPair(bs, wc, i, j), wc, i, j + 1)

\* Simulator::check_ball_to_ball_collisions (n_balls >= 1)
check_ball_to_ball_collisions(bs, wc) == BallBallLoop(bs, wc, 1, 2)

\* the reflection without the restitution term
adjust_for_ball_to_cloth_collisions_dead(ball, wc, unit_normal) ==
    LET comp == VScale(unit_normal, dot(ball.u, unit_normal))
    IN  [ball EXCEPT !.u = VSub(ball.u, comp)]

\* Simulator::adjust_for_ball_to_cloth_collisions
adjust_for_ball_to_cloth_collisions(ball, wc, unit_normal) ==
    LET comp == VScale(unit_normal, dot(ball.u, unit_normal))
    IN  [ball EXCEPT
           !.u = VSub(VSub(ball.u, comp), VScale(comp, wc.ball_cloth_rest))]

\* adjust_ball_for_spin turning the center about the spin axis
adjust_ball_for_spin_about_axis(ball, wc, unit_normal) ==
    LET a_dot_n == dot(ball.urot_axis, unit_normal)
    IN  IF Gt(a_dot_n, Zero)
        THEN LET k == Div(wc.ball_radius, a_dot_n)
                 x == VScale(ball.urot_axis, k)
                 rotated_center ==
                     VAdd(rotate_point(
                              VSub(ball.pos, x),
                              from_axis_angle(
                                  ball.urot_axis,
                                  Mul(Mul(ball.urot_angle, a_dot_n), SpinFactor))),
                          x)
             IN  [ball EXCEPT !.pos = rotated_center]
        ELSE ball

\* adjust_ball_for_spin using the spin up: the rate is zero afterwards
adjust_ball_for_spin_spent(ball, wc, unit_normal) ==
    LET a_dot_n == dot(ball.urot_axis, unit_normal)
    IN  IF Gt(a_dot_n, Zero)
        THEN LET k == Div(wc.ball_radius, a_dot_n)
                 x == VScale(ball.urot_axis, k)
                 rotated_center ==
                     VAdd(rotate_point(
                              VSub(ball.pos, x),
                              from_axis_angle(
                                  new_normalize(unit_normal),
                                  Mul(Mul(ball.urot_angle, a_dot_n), SpinFactor))),
                          x)
             IN  [ball EXCEPT !.pos = rotated_center, !.urot_angle = Zero]
        ELSE ball

\* Simulator::adjust_ball_for_spin
adjust_ball_for_spin(ball, wc, unit_normal) ==
    LET a_dot_n == dot(ball.urot_axis, unit_normal)
    IN  IF Gt(a_dot_n, Zero)
        THEN LET k == Div(wc.ball_radius, a_dot_n)
                 x == VScale(ball.urot_axis, k)
                 rotated_center ==
                     VAdd(rotate_point(
                              VSub(ball.pos, x),
                              from_axis_angle(
                                  new_normalize(unit_normal),
                                  Mul(Mul(ball.urot_angle, a_dot_n), SpinFactor))),
                          x)
             IN  [ball EXCEPT !.pos = rotated_center]
        ELSE ball

\* the test with pos.z < ball_radius
BallClothCollidingStrict(ball, wc) ==
    Leq(ball.u.z, Zero) /\ Lt(ball.pos.z, wc.ball_radius)

\* the test of check_ball_to_cloth_collisions: u.z <= 0. and pos.z <= ball_radius
BallClothColliding(ball, wc) ==
    Leq(ball.u.z, Zero) /\ Leq(ball.pos.z, wc.ball_radius)

\* Simulator::check_ball_to_cloth_collisions
check_ball_to_cloth_collisions(bs, wc) ==
    [i \in 1 .. Len(bs) |->
        IF BallClothColliding(bs[i], wc)
        THEN adjust_ball_for_spin(
                 adjust_for_ball_to_cloth_collisions(bs[i], wc, ClothNormal),
                 wc, ClothNormal)
        ELSE bs[i]]

\* the test of check_snap_to_cloth
SnapCondition(ball, wc, step) ==
    LET snap_threshold == Mul(Neg(wc.gravity), step)
    IN  /\ Leq(ball.pos.z, wc.ball_radius)
        /\ Gt(ball.u.z, Zero)
        /\ Leq(ball.u.z, snap_threshold)

\* check_snap_to_cloth lifting every rising ball at or below ball_radius
check_snap_to_cloth_lifting(bs, wc, step) ==
    [i \in 1 .. Len(bs) |->
        IF SnapCondition(bs[i], wc, step)
        THEN [bs[i] EXCEPT !.pos.z = wc.ball_radius, !.u.z = Zero]
        ELSE IF Leq(bs[i].pos.z, wc.ball_radius) /\ Gt(bs[i].u.z, Zero)
        THEN [bs[i] EXCEPT !.pos.z = wc.ball_radius]
        ELSE bs[i]]

\* check_snap_to_cloth setting u.z only
check_snap_to_cloth_velocity_only(bs, wc, step) ==
    [i \in 1 .. Len(bs) |->
        IF SnapCondition(bs[i], wc, step)
        THEN [bs[i] EXCEPT !.u.z = Zero]
        ELSE bs[i]]

\* Simulator::check_snap_to_cloth
check_snap_to_cloth(bs, wc, step) ==
    [i \in 1 .. Len(bs) |->
        IF SnapCondition(bs[i], wc, step)
        THEN [bs[i] EXCEPT !.pos.z = wc.ball_radius, !.u.z = Zero]
        ELSE bs[i]]

\* apply_gravity without the test pos.z > ball_radius
apply_gravity_everywhere(bs, wc, step) ==
    [i \in 1 .. Len(bs) |->
        [bs[i] EXCEPT !.u.z = Add(bs[i].u.z, Mul(wc.gravity, step))]]

\* apply_gravity with the test pos.z >= ball_radius
apply_gravity_at_rest_height(bs, wc, step) ==
    [i \in 1 .. Len(bs) |->
        IF Geq(bs[i].pos.z, wc.ball_radius)
        THEN [bs[i] EXCEPT !.u.z = Add(bs[i].u.z, Mul(wc.gravity, step))]
        ELSE bs[i]]

\* Simulator::apply_gravity
apply_gravity(bs, wc, step) ==
    [i \in 1 .. Len(bs) |->
        IF Gt(bs[i].pos.z, wc.ball_radius)
        THEN [bs[i] EXCEPT !.u.z = Add(bs[i].u.z, Mul(wc.gravity, step))]
        ELSE bs[i]]

\* Simulator::apply_ball_velocities
apply_ball_velocities(bs, step) ==
    [i \in 1 .. Len(bs) |-> apply_velocities(bs[i], step)]

\* progress() with the positions moved first, as in lib.rs progress()
ProgressPassesMoveFirst(bs, wc, step) ==
    LET vel == apply_ball_velocities(bs, step)
        bb == check_ball_to_ball_collisions(vel, wc)
        bc == check_ball_to_cloth_collisions(bb, wc)
        snap == check_snap_to_cloth(bc, wc, step)
        grav == apply_gravity(snap, wc, step)
    IN  [pre |-> bs, bb |-> bb, bc |-> bc, snap |-> snap, grav |-> grav,
         vel |-> grav]

\* the ball vector after each pass of Simulator::progress, in the order of
\* the calls
ProgressPasses(bs, wc, step) ==
    LET bb == check_ball_to_ball_collisions(bs, wc)
        bc == check_ball_to_cloth_collisions(bb, wc)
        snap == check_snap_to_cloth(bc, wc, step)
        grav == apply_gravity(snap, wc, step)
        vel == apply_ball_velocities(grav, step)
    IN  [pre |-> bs, bb |-> bb, bc |-> bc, snap |-> snap, grav |-> grav,
         vel |-> vel]

\* SimulationState::from_simulator
from_simulator(sim_t, sim_balls) == [t |-> sim_t, balls |-> sim_balls]

(***************************************************************************)
(* Histories: run_complete_simulation, the buffer of GameState::update and *)
(* calc_interpolated_at.  sim is the Simulator after a progress() call:    *)
(* its t, ts, balls and t_hard_limit.                                      *)
(***************************************************************************)
\* the loop body with the snapshot pushed before the test of the limit
RunKeepThenTest(states, sim) == Append(states, [t |-> sim.t, balls |-> sim.balls])

\* the loop body leaving one step before the limit
RunKeepOneEarly(states, sim) ==
    IF Geq(Add(sim.t, sim.ts), sim.t_hard_limit) THEN states
    ELSE Append(states, [t |-> sim.t, balls |-> sim.balls])

\* run_complete_simulation, the loop body after progress(): break at
\* self.t >= self.t_hard_limit, otherwise push the snapshot
RunKeep(states, sim) ==
    IF Geq(sim.t, sim.t_hard_limit) THEN states
    ELSE Append(states, [t |-> sim.t, balls |-> sim.balls])

\* run_complete_simulation: the test that leaves the loop
RunBreaks(sim) == Geq(sim.t, sim.t_hard_limit)

\* the host's buffer evicting only when it holds three snapshots
HostKeepThree(states, simulation_state) ==
    Append(IF Len(states) = 3 THEN Tail(states) ELSE states, simulation_state)

\* the host's buffer keeping the newest snapshot in front
HostKeepNewestFirst(states, simulation_state) ==
    <<simulation_state>> \o (IF Len(states) = 2 THEN <<states[1]>> ELSE states)

\* GameState::update, the loop body after progress(): remove(0) when the
\* buffer holds two snapshots, then push
HostKeep(states, simulation_state) ==
    Append(IF Len(states) = 2 THEN Tail(states) ELSE states, simulation_state)

\* the value of a division by zero, which no comparison of the model reads
NaN == "NaN"

\* geometry::calc_interpolated_vector with w at the far end
calc_interpolated_vector_reversed(v1, v2, t1, t2, tq) ==
    IF t2 = t1 THEN [x |-> NaN, y |-> NaN, z |-> NaN]
    ELSE LET w == Div(Sub(tq, t1), Sub(t2, t1))
         IN  VAdd(VScale(v1, w), VScale(v2, Sub(One, w)))

\* geometry::calc_interpolated_vector
calc_interpolated_vector(v1, v2, t1, t2, tq) ==
    IF t2 = t1 THEN [x |-> NaN, y |-> NaN, z |-> NaN]
    ELSE LET w == Div(Sub(tq, t1), Sub(t2, t1))
         IN  VAdd(VScale(v1, Sub(One, w)), VScale(v2, w))

\* geometry::calc_interpolated_quaternion: the slerp (or nlerp) of q1 and q2
\* at w, kept as the term it is computed from
calc_interpolated_quaternion(q1, q2, t1, t2, tq) ==
    [slerp |-> <<q1, q2>>,
     w |-> IF t2 = t1 THEN NaN ELSE Div(Sub(tq, t1), Sub(t2, t1))]

\* the bracket test with both comparisons strict
BracketsStrict(state1, state2, tq) == Lt(state1.t, tq) /\ Gt(state2.t, tq)

\* calc_interpolated_at: state1.t <= t && state2.t >= t
Brackets(state1, state2, tq) == Leq(state1.t, tq) /\ Geq(state2.t, tq)

\* calc_interpolated_at: the loop over 0..sl-1, from index i on; the first
\* bracketing index, or 0 when the loop ends without one
RECURSIVE FindBracket(_, _, _)
FindBracket(states, tq, i) ==
    IF i > Len(states) - 1 THEN 0
    ELSE IF Brackets(states[i], states[i + 1], tq) THEN i
    ELSE FindBracket(states, tq, i + 1)

\* calc_interpolated_at: the balls built from the bracket (state1, state2)
InterpolatedBalls(state1, state2, tq) ==
    [i \in 1 .. Len(state1.balls) |->
        Ball(calc_interpolated_vector(state1.balls[i].pos, state2.balls[i].pos,
                                      state1.t, state2.t, tq),
             zeros,
             calc_interpolated_quaternion(state1.balls[i].rot, state2.balls[i].rot,
                                          state1.t, state2.t, tq),
             new_normalize(IVec(1, 0, 0)),
             Zero)]

\* calc_interpolated_at with the two clamps taking the other end
calc_interpolated_at_swapped(states, tq) ==
    LET sl == Len(states)
    IN  IF sl = 0 THEN [fault |-> "empty", t |-> tq, balls |-> <<>>]
        ELSE IF Leq(tq, states[1].t)
        THEN [fault |-> "none", t |-> tq, balls |-> states[sl].balls]
        ELSE IF Geq(tq, states[sl].t)
        THEN [fault |-> "none", t |-> tq, balls |-> states[1].balls]
        ELSE LET i == FindBracket(states, tq, 1)
             IN  IF i = 0 THEN [fault |-> "no result", t |-> tq, balls |-> <<>>]
                 ELSE [fault |-> "none", t |-> tq,
                       balls |-> InterpolatedBalls(states[i], states[i + 1], tq)]

\* calc_interpolated_at answering an empty history with an empty state
calc_interpolated_at_lenient(states, tq) ==
    LET sl == Len(states)
    IN  IF sl = 0 THEN [fault |-> "none", t |-> tq, balls |-> <<>>]
        ELSE IF Leq(tq, states[1].t)
        THEN [fault |-> "none", t |-> tq, balls |-> states[1].balls]
        ELSE IF Geq(tq, states[sl].t)
        THEN [fault |-> "none", t |-> tq, balls |-> states[sl].balls]
        ELSE LET i == FindBracket(states, tq, 1)
             IN  IF i = 0 THEN [fault |-> "no result", t |-> tq, balls |-> <<>>]
                 ELSE [fault |-> "none", t |-> tq,
                       balls |-> InterpolatedBalls(states[i], states[i + 1], tq)]

\* SimulationStateSeq::calc_interpolated_at; fault names the panic, if any
calc_interpolated_at(states, tq) ==
    LET sl == Len(states)
    IN  IF sl = 0 THEN [fault |-> "empty", t |-> tq, balls |-> <<>>]
        ELSE IF Leq(tq, states[1].t)
        THEN [fault |-> "none", t |-> tq, balls |-> states[1].balls]
        ELSE IF Geq(tq, states[sl].t)
        THEN [fault |-> "none", t |-> tq, balls |-> states[sl].balls]
        ELSE LET i == FindBracket(states, tq, 1)
             IN  IF i = 0 THEN [fault |-> "no result", t |-> tq, balls |-> <<>>]
                 ELSE [fault |-> "none", t |-> tq,
                       balls |-> InterpolatedBalls(states[i], states[i + 1], tq)]

(***************************************************************************)
(* lib.rs: the older Simulator of the library crate root.  Its Ball        *)
(* carries the rotation velocity as a unit quaternion urot, its WorldConf  *)
(* has no restitution and no gravity, and its progress() moves the balls   *)
(* and then runs its own ball-ball pass.                                   *)
(***************************************************************************)
LibBall(pos, u, rot, urot) == [pos |-> pos, u |-> u, rot |-> rot, urot |-> urot]

\* urot.powf(ts), for urot the identity or one axis-angle rotation
QuatPowf(q, k) ==
    IF q = identity THEN identity
    ELSE from_axis_angle(q[1].axis, Mul(q[1].angle, k))

\* lib.rs Ball::apply_velocities
lib_apply_velocities(ball, step) ==
    [ball EXCEPT !.pos = VAdd(ball.pos, VScale(ball.u, step)),
                 !.rot = QuatMul(QuatPowf(ball.urot, step), ball.rot)]

\* lib.rs Simulator::apply_ball_velocities
lib_apply_ball_velocities(bs, step) ==
    [i \in 1 .. Len(bs) |-> lib_apply_velocities(bs[i], step)]

\* lib.rs Simulator::adjust_ball_to_ball_collisions
lib_adjust_ball_to_ball_collisions(bs, coll_ev) ==
    LET comp_a == NormalComponent(bs[coll_ev.i].u, coll_ev.unit_normal)
        comp_b == VScale(NormalComponent(bs[coll_ev.j].u, coll_ev.unit_normal),
                         I(-1))
    IN  [bs EXCEPT
           ![coll_ev.i].u = VAdd(VSub(bs[coll_ev.i].u, comp_a), comp_b),
           ![coll_ev.j].u = VAdd(VSub(bs[coll_ev.j].u, comp_b), comp_a)]

\* the test of lib.rs check_ball_to_ball_collisions on the pair (i, j):
\* r_norm > 0., norm_apprch_v > 0., r_norm < 2. * ball_radius
LibBallBallColliding(bs, wc, i, j) ==
    LET norm_apprch_v ==
            calc_norm_apprch_v(bs[i].pos, bs[j].pos, bs[i].u, bs[j].u)
        r_norm == Norm(VSub(bs[j].pos, bs[i].pos))
    IN  /\ NormPositive(r_norm)
        /\ QuotPositive(norm_apprch_v)
        /\ NormLt(r_norm, Mul(I(2), wc.ball_radius))

LibBallBallPair(bs, wc, i, j) ==
    IF LibBallBallColliding(bs, wc, i, j)
    THEN lib_adjust_ball_to_ball_collisions(bs, BallBallCollisionEvent(bs, i, j))
    ELSE bs

RECURSIVE LibBallBallLoop(_, _, _, _)
LibBallBallLoop(bs, wc, i, j) ==
    IF i > Len(bs) - 1 THEN bs
    ELSE IF j > Len(bs) THEN LibBallBallLoop(bs, wc, i + 1, i + 2)
    ELSE LibBallBallLoop(LibBallBallPair(bs, wc, i, j), wc, i, j + 1)

\* lib.rs Simulator::check_ball_to_ball_collisions (n_balls >= 1)
lib_check_ball_to_ball_collisions(bs, wc) == LibBallBallLoop(bs, wc, 1, 2)

\* the ball vector after each pass of lib.rs Simulator::progress
LibProgressPasses(bs, wc, step) ==
    LET vel == lib_apply_ball_velocities(bs, step)
        bb == lib_check_ball_to_ball_collisions(vel, wc)
    IN  [pre |-> bs, vel |-> vel, bb |-> bb]

(***************************************************************************)
(* State.                                                                  *)
(***************************************************************************)
VARIABLES
    balls,       \* Simulator.balls (jlib.rs)
    world_conf,  \* Simulator.world_conf: the fields the passes read
    ts,          \* Simulator.ts
    t,           \* Simulator.t
    fault,       \* "none", or "panic" once a call has panicked
    ret,         \* the SimulationState the last progress() returned
    calls,       \* the number of progress() calls made so far
    last,        \* the ball vector after each pass of the last progress()
    obs,         \* per ball: what has been observed of its bounces
    scenario,    \* the family of initial configurations the run started from
    overflow_checks, \* whether the build panics on integer overflow
    lib_sim,     \* the Simulator of lib.rs: balls, world_conf, ts
    lib_calls,   \* the number of lib.rs progress() calls made so far
    lib_last,    \* the ball vector after each pass of the last lib.rs progress()
    run,         \* run_complete_simulation: pc, states, and log, the snapshot
                 \* after every progress() it has called
    host,        \* GameState: pc, simulation_state_seq.states, the elapsed
                 \* time of the frame, frames so far, simulation_state
    itp          \* a SimulationStateSeq with the last query and its result

vars == <<balls, world_conf, ts, t, fault, ret, calls, last, obs, scenario,
          overflow_checks, lib_sim, lib_calls, lib_last, run, host, itp>>

jlibVars == <<balls, world_conf, ts, t, fault, ret, calls, last, obs>>
libVars == <<lib_sim, lib_calls, lib_last>>
seqVars == <<run, host, itp>>

(***************************************************************************)
(* Observation of a ball's bounces on the cloth (history, not program      *)
(* state): whether it has been snapped, whether a progress() ran after the *)
(* snap, the number of cloth collisions seen (counted to 2), the highest   *)
(* pos.z since the last cloth collision, and the highest pos.z of the last *)
(* two completed intervals between consecutive cloth collisions.           *)
(***************************************************************************)
ObsInit ==
    [snapped |-> FALSE, after |-> FALSE, ncoll |-> 0, peak |-> Zero,
     closed |-> 0, lastPeak |-> Zero, prevPeak |-> Zero]

Min2(n) == IF n >= 2 THEN 2 ELSE n

ObsStep(o, P, i, wc, step) ==
    LET collided == BallClothColliding(P.bb[i], wc)
        newz == P.vel[i].pos.z
    IN  IF o.snapped THEN [o EXCEPT !.after = TRUE]
        ELSE [snapped |-> SnapCondition(P.bc[i], wc, step),
              after |-> FALSE,
              ncoll |-> IF collided THEN Min2(o.ncoll + 1) ELSE o.ncoll,
              peak |-> IF collided \/ o.ncoll = 0 THEN newz ELSE Max(o.peak, newz),
              closed |-> IF collided /\ o.ncoll >= 1 THEN Min2(o.closed + 1)
                         ELSE o.closed,
              lastPeak |-> IF collided /\ o.ncoll >= 1 THEN o.peak ELSE o.lastPeak,
              prevPeak |-> IF collided /\ o.ncoll >= 1 THEN o.lastPeak
                           ELSE o.prevPeak]

(***************************************************************************)
(* Initial configurations.                                                 *)
(***************************************************************************)
Half == <<1, 2>>
NoPasses == [pre |-> <<>>, bb |-> <<>>, bc |-> <<>>, snap |-> <<>>,
             grav |-> <<>>, vel |-> <<>>]
NoLibPasses == [pre |-> <<>>, vel |-> <<>>, bb |-> <<>>]
NoLibSim == [balls |-> <<>>, world_conf |-> [ball_radius |-> I(3)], ts |-> One]

WorldConf(radius, bb_rest, bc_rest, gravity) ==
    [ball_radius |-> radius, ball_ball_rest |-> bb_rest,
     ball_cloth_rest |-> bc_rest, gravity |-> gravity]

AxisZ == IVec(0, 0, 1)
AxisX == IVec(1, 0, 0)
\* a unit axis tilted towards the cloth normal: (3/5, 0, 4/5)
AxisTilt == Vec(<<3, 5>>, Zero, <<4, 5>>)
\* a unit axis pointing into the cloth
AxisDown == IVec(0, 0, -1)

\* spins <<urot_axis, urot_angle>> of a dropped ball
DropSpins == {<<AxisZ, Zero>>, <<AxisZ, I(20000)>>}
DropRests == {Zero, Half, <<3, 4>>}
DropHeights == {Q(k, 4) : k \in 1 .. MaxDropQuarters}

\* a single ball at rest, above the resting height
InitDrop ==
    \E h \in DropHeights, sp \in DropSpins, e \in DropRests, step \in {One, Half} :
        /\ scenario = "drop"
        /\ world_conf = WorldConf(I(3), One, e, I(-1))
        /\ ts = step
        /\ balls = <<Ball(Vec(One, Zero, Add(I(3), h)), zeros, identity,
                          sp[1], sp[2])>>

PairVels ==
    {IVec(0, 0, 0), IVec(1, 0, 0), IVec(-1, 0, 0), IVec(0, 1, 0),
     IVec(3, 4, 0), IVec(-3, -4, 0), IVec(0, 0, -1), IVec(0, 0, 1)}
\* where the second ball is, relative to the first
PairOffsets ==
    {IVec(0, 0, 0), IVec(6, 0, 0), IVec(3, 4, 0), IVec(7, 0, 0), IVec(0, 0, 5)}
PairRadii == {I(3), <<5, 2>>}
PairSpins == {<<AxisTilt, I(25000)>>, <<AxisDown, I(20000)>>}
PairSpinVels == {IVec(0, 0, 0), IVec(1, 0, 0), IVec(0, 0, -1)}

\* two balls that do not spin, the first resting on the cloth
InitPair ==
    \E off \in PairOffsets, u1 \in PairVels, u2 \in PairVels,
       radius \in PairRadii, e \in {One, Half} :
        /\ scenario = "pair"
        /\ world_conf = WorldConf(radius, e, Half, I(-1))
        /\ ts = One
        /\ balls = <<Ball(Vec(Zero, Zero, radius), u1, identity, AxisZ, Zero),
                     Ball(VAdd(Vec(Zero, Zero, radius), off), u2, identity,
                          AxisZ, Zero)>>

\* two balls, the first spinning and resting on the cloth
InitPairSpin ==
    \E off \in PairOffsets, u1 \in PairSpinVels, u2 \in PairSpinVels,
       sp \in PairSpins :
        /\ scenario = "pair"
        /\ world_conf = WorldConf(I(3), One, Half, I(-1))
        /\ ts = One
        /\ balls = <<Ball(IVec(0, 0, 3), u1, identity, sp[1], sp[2]),
                     Ball(VAdd(IVec(0, 0, 3), off), u2, identity, AxisZ, Zero)>>

TripleVels == {IVec(0, 0, 0), IVec(1, 0, 0), IVec(-1, 0, 0), IVec(0, -1, 0)}
\* where the third ball is: touching both others, or far from both
TriplePlaces == {IVec(3, 4, 3), IVec(20, 0, 3)}

\* three balls on the cloth, the first two exactly at contact distance
InitTriple ==
    \E u1 \in TripleVels, u2 \in TripleVels, u3 \in TripleVels,
       p3 \in TriplePlaces, e \in {One, Half} :
        /\ scenario = "triple"
        /\ world_conf = WorldConf(I(3), e, Half, I(-1))
        /\ ts = One
        /\ balls = <<Ball(IVec(0, 0, 3), u1, identity, AxisZ, Zero),
                     Ball(IVec(6, 0, 3), u2, identity, AxisZ, Zero),
                     Ball(p3, u3, identity, AxisZ, Zero)>>

\* a Simulator constructed with no balls
InitEmpty ==
    /\ scenario = "empty"
    /\ world_conf = WorldConf(I(3), One, Half, I(-1))
    /\ ts = One
    /\ balls = <<>>

LibVels == {IVec(0, 0, 0), IVec(1, 0, 0), IVec(-1, 0, 0), IVec(0, 1, 0)}
LibOffsets == {IVec(0, 0, 0), IVec(8, 0, 0), IVec(7, 0, 0), IVec(5, 0, 0),
               IVec(10, 0, 0)}
LibUrots == {identity, from_axis_angle(AxisZ, One)}

\* the lib.rs Simulator with two balls
InitLib ==
    \E off \in LibOffsets, u1 \in LibVels, u2 \in LibVels, q \in LibUrots :
        /\ scenario = "lib"
        /\ world_conf = WorldConf(I(3), One, Half, I(-1))
        /\ ts = One
        /\ balls = <<>>
        /\ lib_sim = [balls |-> <<LibBall(IVec(0, 0, 0), u1, identity, q),
                                  LibBall(off, u2, identity, identity)>>,
                      world_conf |-> [ball_radius |-> I(3)],
                      ts |-> One]

\* no run_complete_simulation, no host and no interpolation in this run
NoResult == [fault |-> "none", t |-> Zero, balls |-> <<>>]
NoRun == [pc |-> "off", states |-> <<>>, log |-> <<>>]
NoHost == [pc |-> "off", states |-> <<>>, t_elapsed |-> Zero, frames |-> 0,
           simulation_state |-> NoResult]
NoItp == [states |-> <<>>, query |-> Zero, result |-> NoResult, asked |-> FALSE]

\* ball vectors and timesteps of the Simulators run to completion
RunBalls ==
    {<<>>,
     <<Ball(IVec(0, 0, 3), IVec(1, 0, 0), identity, AxisZ, Zero)>>,
     <<Ball(IVec(0, 0, 4), zeros, identity, AxisZ, Zero)>>,
     <<Ball(IVec(0, 0, 3), IVec(1, 0, 0), identity, AxisZ, Zero),
       Ball(IVec(9, 0, 3), IVec(0, 1, 0), identity, AxisZ, Zero)>>}
RunSteps == {I(5), I(6), I(7), <<15, 2>>, I(10), I(16), I(30), I(45)}

\* a Simulator on which run_complete_simulation has just been called
InitRun ==
    \E bs \in RunBalls, step \in RunSteps :
        /\ scenario = "run"
        /\ world_conf = WorldConf(I(3), One, Half, I(-1))
        /\ ts = step
        /\ balls = bs
        /\ run = [pc |-> "looping", states |-> <<>>, log |-> <<>>]

\* ball vectors, timesteps and elapsed times of the host
HostBalls ==
    {<<Ball(IVec(0, 0, 3), IVec(2, 0, 0), identity, AxisZ, Zero)>>,
     <<Ball(IVec(0, 0, 3), IVec(2, 0, 0), identity, AxisZ, Zero),
       Ball(IVec(0, 9, 5), IVec(0, 1, 0), identity, AxisZ, Zero)>>}
HostSteps == {One, I(2)}
HostTimes == {Zero, Half, One, <<5, 2>>, I(3), I(4), I(33)}

\* GameState::new: an empty buffer, no shot started, no simulation_state
InitHost ==
    \E bs \in HostBalls, step \in HostSteps :
        /\ scenario = "host"
        /\ world_conf = WorldConf(I(3), One, Half, I(-1))
        /\ ts = step
        /\ balls = bs
        /\ host = [pc |-> "idle", states |-> <<>>, t_elapsed |-> Zero, frames |-> 0,
                   simulation_state |-> NoResult]

\* snapshots, histories and query times given to calc_interpolated_at
InterpTimes == {Zero, One, I(2), I(4)}
InterpBalls ==
    {Ball(IVec(0, 0, 0), IVec(1, 1, 1), identity, AxisZ, I(5)),
     Ball(IVec(2, 0, 0), IVec(0, 1, 0), from_axis_angle(AxisZ, One), AxisZ, I(5)),
     Ball(IVec(1, 3, 5), IVec(0, 0, 1), from_axis_angle(AxisX, One), AxisX, One)}
InterpSnapshots == {[t |-> time, balls |-> <<b>>] : time \in InterpTimes, b \in InterpBalls}
\* the histories of at most 3 snapshots with strictly increasing timestamps
InterpHistories ==
    UNION {{h \in [1 .. n -> InterpSnapshots] :
                \A k \in 1 .. n - 1 : Lt(h[k].t, h[k + 1].t)} : n \in 0 .. 3}
InterpQueries == {I(-1), Zero, Half, One, <<3, 2>>, I(2), I(3), I(4), I(5)}

\* a SimulationStateSeq before any query
InitInterp ==
    \E h \in InterpHistories :
        /\ scenario = "interp"
        /\ world_conf = WorldConf(I(3), One, Half, I(-1))
        /\ ts = One
        /\ balls = <<>>
        /\ itp = [states |-> h, query |-> Zero, result |-> NoResult, asked |-> FALSE]

\* Simulator::new: t: 0.; nothing has been called yet
Init ==
    /\ t = Zero
    /\ fault = "none"
    /\ ret = from_simulator(Zero, <<>>)
    /\ calls = 0
    /\ last = NoPasses
    /\ lib_calls = 0
    /\ lib_last = NoLibPasses
    /\ \/ /\ InitDrop \/ InitPair \/ InitPairSpin \/ InitTriple \/ InitEmpty
          /\ lib_sim = NoLibSim /\ run = NoRun /\ host = NoHost /\ itp = NoItp
       \/ InitLib /\ run = NoRun /\ host = NoHost /\ itp = NoItp
       \/ InitRun /\ lib_sim = NoLibSim /\ host = NoHost /\ itp = NoItp
       \/ InitHost /\ lib_sim = NoLibSim /\ run = NoRun /\ itp = NoItp
       \/ InitInterp /\ lib_sim = NoLibSim /\ run = NoRun /\ host = NoHost
    /\ obs = [i \in 1 .. Len(balls) |-> ObsInit]
    \* the build profile matters to a Simulator without balls only
    /\ overflow_checks \in (IF scenario \in {"empty", "run"} /\ Len(balls) = 0
                            THEN BOOLEAN ELSE {TRUE})

(***************************************************************************)
(* Operations.                                                             *)
(***************************************************************************)
\* how many progress() calls the model follows from a configuration
MaxCalls ==
    CASE scenario = "drop" -> MaxDropSteps
      [] scenario \in {"lib", "run", "host", "interp"} -> 0
      [] OTHER -> MaxPairSteps

\* a caller is about to call Simulator::progress: a direct caller, the loop
\* of run_complete_simulation, or the inner loop of GameState::update, which
\* runs while self.simulator.t < t_elapsed_in_shot
CallerReady ==
    /\ fault = "none"
    /\ CASE scenario = "run" -> run.pc = "looping"
         [] scenario = "host" -> host.pc = "looping" /\ Lt(t, host.t_elapsed)
         [] OTHER -> calls < MaxCalls

\* the Simulator as run_complete_simulation reads it after progress()
SimAfter == [t |-> t', ts |-> ts, balls |-> balls', t_hard_limit |-> I(T_HARD_LIMIT)]

\* what the caller does with the snapshot progress() returned:
\* run_complete_simulation leaves its loop or pushes and goes on,
\* GameState::update evicts and pushes, a direct caller keeps it in ret
CallerAfterProgress ==
    /\ run' = IF scenario = "run"
              THEN [pc |-> IF RunBreaks(SimAfter) THEN "returned" ELSE "looping",
                    states |-> RunKeep(run.states, SimAfter),
                    log |-> Append(run.log, ret')]
              ELSE run
    /\ host' = IF scenario = "host"
               THEN [host EXCEPT !.states = HostKeep(@, ret')]
               ELSE host

\* Simulator::progress, with at least one ball
Progress ==
    /\ CallerReady
    /\ Len(balls) >= 1
    /\ LET P == ProgressPasses(balls, world_conf, ts)
       IN  /\ balls' = P.vel
           /\ t' = Add(t, ts)
           /\ ret' = from_simulator(t', balls')
           /\ last' = P
           /\ obs' = [i \in 1 .. Len(balls) |-> ObsStep(obs[i], P, i, world_conf, ts)]
    /\ calls' = calls + 1
    /\ CallerAfterProgress
    /\ UNCHANGED <<world_conf, ts, fault, scenario, overflow_checks, libVars, itp>>

\* Simulator::progress with no ball, built with overflow checks: n_balls-1
\* in check_ball_to_ball_collisions panics, and with it the caller
ProgressEmptyPanic ==
    /\ CallerReady
    /\ Len(balls) = 0
    /\ overflow_checks
    /\ fault' = "panic"
    /\ run' = IF scenario = "run" THEN [run EXCEPT !.pc = "panicked"] ELSE run
    /\ UNCHANGED <<balls, world_conf, ts, t, ret, calls, last, obs, scenario,
                   overflow_checks, libVars, host, itp>>

\* Simulator::progress with no ball, built without overflow checks: n_balls-1
\* wraps, every inner range i+1 .. 0 is empty, and the other passes find no ball
ProgressEmptyWrap ==
    /\ CallerReady
    /\ Len(balls) = 0
    /\ ~overflow_checks
    /\ t' = Add(t, ts)
    /\ ret' = from_simulator(t', balls)
    /\ last' = NoPasses
    /\ calls' = calls + 1
    /\ UNCHANGED <<balls, obs>>
    /\ CallerAfterProgress
    /\ UNCHANGED <<world_conf, ts, fault, scenario, overflow_checks, libVars, itp>>

\* lib.rs Simulator::progress
LibProgress ==
    /\ scenario = "lib"
    /\ lib_calls < MaxPairSteps
    /\ LET P == LibProgressPasses(lib_sim.balls, lib_sim.world_conf, lib_sim.ts)
       IN  /\ lib_sim' = [lib_sim EXCEPT !.balls = P.bb]
           /\ lib_last' = P
    /\ lib_calls' = lib_calls + 1
    /\ UNCHANGED <<jlibVars, scenario, overflow_checks, seqVars>>

\* GameState::update: one turn of the outer loop begins; the first one sets
\* t_shot_start, so its elapsed time is 0, and time does not run backwards
HostFrame ==
    /\ host.pc = "idle"
    /\ host.frames < MaxHostFrames
    /\ \E te \in HostTimes :
          /\ host.frames = 0 => te = Zero
          /\ Geq(te, host.t_elapsed)
          /\ host' = [host EXCEPT !.pc = "looping", !.t_elapsed = te,
                                  !.frames = @ + 1]
    /\ UNCHANGED <<jlibVars, scenario, overflow_checks, libVars, run, itp>>

\* GameState::update: after the inner loop, with an empty buffer: nothing
\* is interpolated
HostSkip ==
    /\ host.pc = "looping"
    /\ ~Lt(t, host.t_elapsed)
    /\ host.states = <<>>
    /\ host' = [host EXCEPT !.pc = "idle"]
    /\ UNCHANGED <<jlibVars, scenario, overflow_checks, libVars, run, itp>>

\* the calls with GameState::update interpolating before its inner loop ends
InterpCallsInsideLoop ==
    {[who |-> "direct", states |-> itp.states, tq |-> q] :
        q \in IF scenario = "interp" THEN InterpQueries ELSE {}}
    \cup (IF host.pc = "looping" /\ host.states # <<>>
          THEN {[who |-> "host", states |-> host.states, tq |-> host.t_elapsed]}
          ELSE {})

\* the calls of calc_interpolated_at that can be made now: any query on the
\* history given directly, and the one of GameState::update after its inner
\* loop, on a buffer that is not empty, at the elapsed time
InterpCalls ==
    {[who |-> "direct", states |-> itp.states, tq |-> q] :
        q \in IF scenario = "interp" THEN InterpQueries ELSE {}}
    \cup (IF host.pc = "looping" /\ ~Lt(t, host.t_elapsed) /\ host.states # <<>>
          THEN {[who |-> "host", states |-> host.states, tq |-> host.t_elapsed]}
          ELSE {})

\* SimulationStateSeq::calc_interpolated_at is called and its result kept
Interpolate ==
    /\ \E c \in InterpCalls :
          LET result == calc_interpolated_at(c.states, c.tq)
          IN  /\ itp' = IF c.who = "direct"
                        THEN [itp EXCEPT !.query = c.tq, !.result = result,
                                         !.asked = TRUE]
                        ELSE itp
              /\ host' = IF c.who = "host"
                         THEN [host EXCEPT !.pc = "idle", !.simulation_state = result]
                         ELSE host
    /\ UNCHANGED <<jlibVars, scenario, overflow_checks, libVars, run>>

Next ==
    \/ Progress \/ ProgressEmptyPanic \/ ProgressEmptyWrap \/ LibProgress
    \/ HostFrame \/ HostSkip \/ Interpolate

Spec == Init /\ [][Next]_vars

\* the runs of run_complete_simulation alone; the call keeps running while
\* it is in its loop
RunInit == Init /\ scenario = "run"
RunNext == Progress \/ ProgressEmptyPanic \/ ProgressEmptyWrap
\* a turn of the loop, seen on the call counter and the fault flag: every
\* RunNext step is one, and one is possible exactly when a RunNext step is
RunTurn ==
    /\ run.pc = "looping"
    /\ fault = "none"
    /\ \/ calls' = calls + 1 /\ fault' = fault
       \/ calls' = calls /\ fault' = "panic"
RunSpec == RunInit /\ [][RunNext]_vars /\ WF_<<calls, fault>>(RunTurn)

(***************************************************************************)
(* Claims.                                                                 *)
(***************************************************************************)

\* C1: every progress() call runs ball-ball, ball-cloth, snap-to-cloth,
\* gravity and integration in this order, advances t by exactly ts, and
\* returns a snapshot with the advanced clock and the balls after the step.
C1_StepOrder ==
    [][calls' = calls + 1 =>
         /\ balls' = apply_ball_velocities(
                         apply_gravity(
                             check_snap_to_cloth(
                                 check_ball_to_cloth_collisions(
                                     check_ball_to_ball_collisions(balls, world_conf),
                                     world_conf),
                                 world_conf, ts),
                             world_conf, ts),
                         ts)
         /\ t' = Add(t, ts)
         /\ ret'.t = t'
         /\ ret'.balls = balls']_vars

\* a progress() call in which each of the five passes changed some ball
C1_Witness ==
    /\ calls >= 1
    /\ last.bb # last.pre
    /\ last.bc # last.bb
    /\ last.snap # last.bc
    /\ last.grav # last.snap
    /\ last.vel # last.grav
    /\ balls = last.vel
    /\ ret = from_simulator(t, balls)

\* the run started from a single ball at rest above the resting height, with
\* negative gravity, ts > 0 and ball_cloth_rest < 1
DropRun ==
    /\ scenario = "drop"
    /\ Len(balls) = 1
    /\ Lt(world_conf.gravity, Zero)
    /\ Gt(ts, Zero)
    /\ Lt(world_conf.ball_cloth_rest, One)

\* the vertical state of a ball
Vertical(ball) == <<ball.pos.z, ball.u.z>>

AtRestOnCloth(ball) == ball.pos.z = world_conf.ball_radius /\ ball.u.z = Zero

\* another ball is within contact distance of ball i
Touched(bs, i) ==
    \E j \in 1 .. Len(bs) :
        /\ j # i
        /\ NormPositive(Norm(VSub(bs[j].pos, bs[i].pos)))
        /\ NormLeq(Norm(VSub(bs[j].pos, bs[i].pos)),
                   Mul(I(2), world_conf.ball_radius))

\* C3: the progress() that snaps a ball leaves it with pos.z = ball_radius
\* and u.z = 0, and every later progress() in which no other ball touches it
\* leaves it so: cloth pass, spin adjustment, snap pass, gravity and
\* integration never move it vertically again.
C3_SnappedStaysAtRest ==
    [][calls' = calls + 1 =>
         \A i \in 1 .. Len(balls) :
            /\ obs'[i].snapped /\ ~obs[i].snapped => AtRestOnCloth(balls'[i])
            /\ obs[i].snapped /\ AtRestOnCloth(balls[i]) /\ ~Touched(balls, i)
                  => AtRestOnCloth(balls'[i])]_vars

\* a spinning ball that was snapped, moved sideways by the spin adjustment in a
\* later progress(), and is still at rest on the cloth
C3_Witness ==
    /\ scenario = "drop"
    /\ obs[1].snapped /\ obs[1].after
    /\ balls[1].urot_angle # Zero
    /\ last.bc[1].pos # last.pre[1].pos
    /\ AtRestOnCloth(balls[1])

Sep(bs, i, j) == VSub(bs[j].pos, bs[i].pos)

\* the centers are apart and at most 2 * radius apart
InContact(bs, radius, i, j) ==
    /\ Gt(dot(Sep(bs, i, j), Sep(bs, i, j)), Zero)
    /\ Leq(dot(Sep(bs, i, j), Sep(bs, i, j)), Mul(I(4), Mul(radius, radius)))

\* the normal approach speed dot(u_i - u_j, r) / norm(r) is positive
Approaching(bs, i, j) == Gt(dot(VSub(bs[i].u, bs[j].u), Sep(bs, i, j)), Zero)

ShouldCollide(bs, radius, i, j) == InContact(bs, radius, i, j) /\ Approaching(bs, i, j)

\* the component of ball k's velocity along the line of centers of i and j
Along(bs, k, i, j) ==
    VScale(Sep(bs, i, j),
           Div(dot(bs[k].u, Sep(bs, i, j)), dot(Sep(bs, i, j), Sep(bs, i, j))))

\* what the collision of k with j adds to the velocity of k
RefDelta(bs, radius, rest, k, j) ==
    IF j = k \/ ~ShouldCollide(bs, radius, k, j) THEN zeros
    ELSE VSub(VScale(Along(bs, j, k, j), rest), Along(bs, k, k, j))

RECURSIVE RefSum(_, _, _, _, _)
RefSum(bs, radius, rest, k, j) ==
    IF j > Len(bs) THEN zeros
    ELSE VAdd(RefDelta(bs, radius, rest, k, j), RefSum(bs, radius, rest, k, j + 1))

\* the velocities after a reference pass that collects every collision from
\* the state before the pass and then applies them all
RefVelocities(bs, radius, rest) ==
    [k \in 1 .. Len(bs) |-> VAdd(bs[k].u, RefSum(bs, radius, rest, k, 1))]

Velocities(bs) == [k \in 1 .. Len(bs) |-> bs[k].u]

\* no ball is within contact distance of more than one other ball
NoSharedContact(bs, radius) ==
    \A k \in 1 .. Len(bs) :
        Cardinality({j \in 1 .. Len(bs) : j # k /\ InContact(bs, radius, k, j)}) <= 1

\* no third ball is within contact distance of ball i or ball j
Isolated(bs, radius, i, j) ==
    \A k \in 1 .. Len(bs) :
        k \notin {i, j} => ~InContact(bs, radius, i, k) /\ ~InContact(bs, radius, j, k)

\* C5 (as claimed): in one ball-ball pass every pair is detected and
\* resolved with the velocities from before the pass, so the pass equals the
\* reference pass that collects all events first and applies them afterwards.
C5_PassEqualsReference ==
    calls >= 1 /\ Len(last.pre) >= 1 =>
        Velocities(last.bb)
          = RefVelocities(last.pre, world_conf.ball_radius, world_conf.ball_ball_rest)

\* C5 (amended): a pair is detected and resolved with the velocities current
\* at its turn in the loops (i ascending, then j ascending), so it sees what
\* earlier pairs of the same pass changed; the pass equals the reference pass
\* whenever no ball is within contact distance of more than one other ball.
C5_PassEqualsReferenceIfNoSharedContact ==
    /\ calls >= 1
    /\ Len(last.pre) >= 1
    /\ NoSharedContact(last.pre, world_conf.ball_radius)
    => Velocities(last.bb)
         = RefVelocities(last.pre, world_conf.ball_radius, world_conf.ball_ball_rest)

\* three balls, two of them colliding, the third in contact with neither
C5_Witness ==
    /\ calls >= 1
    /\ Len(last.pre) = 3
    /\ NoSharedContact(last.pre, world_conf.ball_radius)
    /\ Velocities(last.bb) # Velocities(last.pre)

\* the centers are exactly 2 * radius apart
AtContactDistance(bs, radius, i, j) ==
    dot(Sep(bs, i, j), Sep(bs, i, j)) = Mul(I(4), Mul(radius, radius))

\* equal and opposite velocities along the line of centers, approaching
HeadOn(bs, radius, i, j) ==
    /\ AtContactDistance(bs, radius, i, j)
    /\ bs[i].u = VScale(bs[j].u, I(-1))
    /\ cross(bs[i].u, Sep(bs, i, j)) = zeros
    /\ Approaching(bs, i, j)

Swapped(before, after, i, j) == after[i].u = before[j].u /\ after[j].u = before[i].u

\* the claim of C6 for the pass of jlib.rs
C6_JlibHeadOnSwap ==
    calls >= 1 /\ world_conf.ball_ball_rest = One =>
        \A i \in 1 .. Len(last.pre), j \in 1 .. Len(last.pre) :
            /\ i < j
            /\ HeadOn(last.pre, world_conf.ball_radius, i, j)
            /\ Isolated(last.pre, world_conf.ball_radius, i, j)
            => Swapped(last.pre, last.bb, i, j)

\* the claim of C6 for the pass of lib.rs, which has no restitution factor
C6_LibHeadOnSwap ==
    lib_calls >= 1 =>
        \A i \in 1 .. Len(lib_last.vel), j \in 1 .. Len(lib_last.vel) :
            /\ i < j
            /\ HeadOn(lib_last.vel, lib_sim.world_conf.ball_radius, i, j)
            => Swapped(lib_last.vel, lib_last.bb, i, j)

\* C6: two balls exactly 2 * ball_radius apart that move head-on with equal
\* and opposite velocities, with restitution 1, leave one ball-ball pass with
\* their velocities exchanged; stated for both passes the claim cites.
C6_HeadOnSwap == C6_JlibHeadOnSwap /\ C6_LibHeadOnSwap

\* the square of the normal component of ball k's velocity for the pair (i, j)
NormalSq(bs, k, i, j) ==
    Div(Mul(dot(bs[k].u, Sep(bs, i, j)), dot(bs[k].u, Sep(bs, i, j))),
        dot(Sep(bs, i, j), Sep(bs, i, j)))

PairChanged(before, after, i, j) ==
    <<after[i].u, after[j].u>> # <<before[i].u, before[j].u>>

\* the claim of C8 for the pass of jlib.rs
C8_JlibChangesIff ==
    calls >= 1 =>
        \A i \in 1 .. Len(last.pre), j \in 1 .. Len(last.pre) :
            i < j /\ Isolated(last.pre, world_conf.ball_radius, i, j) =>
                (PairChanged(last.pre, last.bb, i, j)
                   <=> ShouldCollide(last.pre, world_conf.ball_radius, i, j))

\* the claim of C8 for the pass of lib.rs
C8_LibChangesIff ==
    lib_calls >= 1 =>
        \A i \in 1 .. Len(lib_last.vel), j \in 1 .. Len(lib_last.vel) :
            i < j =>
                (PairChanged(lib_last.vel, lib_last.bb, i, j)
                   <=> ShouldCollide(lib_last.vel, lib_sim.world_conf.ball_radius, i, j))

\* C8: the ball-ball pass changes the velocities of a pair exactly when the
\* centers are apart (norm(r) > 0), the normal approach speed is positive and
\* norm(r) <= 2 * ball_radius, the boundary included; stated for both passes
\* the claim cites.
C8_ChangesIff == C8_JlibChangesIff /\ C8_LibChangesIff

(***************************************************************************)
(* The ball-cloth pass, stated from the balls as the ball-ball pass left   *)
(* them (last.bb) and as the ball-cloth pass left them (last.bc).          *)
(***************************************************************************)
MovingDownOnCloth(ball, radius) == Leq(ball.u.z, Zero) /\ Leq(ball.pos.z, radius)

ClothResponse(ball, wc) ==
    adjust_ball_for_spin(adjust_for_ball_to_cloth_collisions(ball, wc, ClothNormal),
                         wc, ClothNormal)

\* C9: a ball gets the cloth collision response in a step exactly when
\* u.z <= 0 and pos.z <= ball_radius, both bounds included; any other ball
\* leaves the ball-cloth pass as it entered it.
C9_ClothCollisionIff ==
    calls >= 1 =>
        \A i \in 1 .. Len(last.bb) :
            last.bc[i] = IF MovingDownOnCloth(last.bb[i], world_conf.ball_radius)
                         THEN ClothResponse(last.bb[i], world_conf)
                         ELSE last.bb[i]

\* one ball exactly at pos.z = ball_radius moving down is reflected while
\* another at the same height moving up is left alone
C9_Witness ==
    /\ calls >= 1
    /\ \E i \in 1 .. Len(last.bb), j \in 1 .. Len(last.bb) :
          /\ last.bb[i].pos.z = world_conf.ball_radius
          /\ Lt(last.bb[i].u.z, Zero)
          /\ Gt(last.bc[i].u.z, Zero)
          /\ last.bb[j].pos.z = world_conf.ball_radius
          /\ Gt(last.bb[j].u.z, Zero)
          /\ last.bc[j] = last.bb[j]

\* C10: on a cloth collision u.z becomes -ball_cloth_rest * u.z and u.x, u.y
\* keep their values.
C10_ClothReflection ==
    calls >= 1 =>
        \A i \in 1 .. Len(last.bb) :
            MovingDownOnCloth(last.bb[i], world_conf.ball_radius) =>
                /\ last.bc[i].u.z = Mul(Neg(world_conf.ball_cloth_rest), last.bb[i].u.z)
                /\ last.bc[i].u.x = last.bb[i].u.x
                /\ last.bc[i].u.y = last.bb[i].u.y

\* a ball moving down and sideways is reflected
C10_Witness ==
    /\ calls >= 1
    /\ Gt(world_conf.ball_cloth_rest, Zero)
    /\ \E i \in 1 .. Len(last.bb) :
          /\ MovingDownOnCloth(last.bb[i], world_conf.ball_radius)
          /\ Lt(last.bb[i].u.z, Zero)
          /\ <<last.bb[i].u.x, last.bb[i].u.y>> # <<Zero, Zero>>
          /\ Gt(last.bc[i].u.z, Zero)

(***************************************************************************)
(* The snap pass (last.bc to last.snap) and the gravity pass (last.snap to *)
(* last.grav).                                                             *)
(***************************************************************************)
\* pos.z <= ball_radius and 0 < u.z <= -gravity * ts
SlowRiseOnCloth(ball, wc, step) ==
    /\ Leq(ball.pos.z, wc.ball_radius)
    /\ Lt(Zero, ball.u.z)
    /\ Leq(ball.u.z, Neg(Mul(wc.gravity, step)))

\* C11: the snap pass sets pos.z to ball_radius and u.z to 0 for every ball
\* with pos.z <= ball_radius and 0 < u.z <= -gravity * ts, keeps everything
\* else of such a ball, and leaves every other ball unchanged.
C11_SnapPass ==
    calls >= 1 =>
        \A i \in 1 .. Len(last.bc) :
            last.snap[i] = IF SlowRiseOnCloth(last.bc[i], world_conf, ts)
                           THEN [last.bc[i] EXCEPT !.pos.z = world_conf.ball_radius,
                                                    !.u.z = Zero]
                           ELSE last.bc[i]

\* a ball below ball_radius rising with exactly the threshold speed is lifted
\* to ball_radius, its x and y kept
C11_Witness ==
    /\ calls >= 1
    /\ \E i \in 1 .. Len(last.bc) :
          /\ Lt(last.bc[i].pos.z, world_conf.ball_radius)
          /\ last.bc[i].u.z = Neg(Mul(world_conf.gravity, ts))
          /\ last.snap[i].pos.z = world_conf.ball_radius
          /\ last.snap[i].u.z = Zero
          /\ last.snap[i].pos.x = last.bc[i].pos.x
          /\ last.snap[i].pos.x # Zero

\* C12: the gravity pass adds gravity * ts to u.z of exactly the balls with
\* pos.z > ball_radius and changes nothing else of any ball.
C12_GravityPass ==
    calls >= 1 =>
        \A i \in 1 .. Len(last.snap) :
            last.grav[i] = IF Gt(last.snap[i].pos.z, world_conf.ball_radius)
                           THEN [last.snap[i] EXCEPT
                                    !.u.z = Add(last.snap[i].u.z,
                                                Mul(world_conf.gravity, ts))]
                           ELSE last.snap[i]

\* in one step a ball above ball_radius is accelerated and a moving ball
\* exactly at ball_radius is not
C12_Witness ==
    /\ calls >= 1
    /\ \E i \in 1 .. Len(last.snap), j \in 1 .. Len(last.snap) :
          /\ Gt(last.snap[i].pos.z, world_conf.ball_radius)
          /\ last.grav[i].u.z = Add(last.snap[i].u.z, Mul(world_conf.gravity, ts))
          /\ last.grav[i].u.z # last.snap[i].u.z
          /\ last.snap[j].pos.z = world_conf.ball_radius
          /\ last.snap[j].u # zeros
          /\ last.grav[j] = last.snap[j]

(***************************************************************************)
(* Failure modes of progress().                                            *)
(***************************************************************************)
\* C13: progress() has no failure mode: with any number of balls, zero and
\* one included, no call panics and every call returns the snapshot
\* (t, balls).
C13_ProgressNeverFails ==
    /\ fault = "none"
    /\ calls >= 1 => ret = [t |-> t, balls |-> balls]

(***************************************************************************)
(* run_complete_simulation and the buffer of the host.                     *)
(***************************************************************************)
Limit == I(T_HARD_LIMIT)

\* the clock is the first of ts, 2*ts, ... that is >= t_hard_limit
ClockFirstAtLimit ==
    /\ t = Mul(I(Len(run.log)), ts)
    /\ Geq(t, Limit)
    /\ Lt(Sub(t, ts), Limit)

\* run_complete_simulation is in its loop, on a Simulator with ts > 0
RunLooping == run.pc = "looping" /\ Gt(ts, Zero)
RunLoopingWithBalls == RunLooping /\ Len(balls) >= 1
RunReturnedAtLimit == run.pc = "returned" /\ ClockFirstAtLimit

\* C14 for the Simulators with at least one ball
C14_RunTerminatesWithBalls == RunLoopingWithBalls ~> RunReturnedAtLimit

\* C14: for every Simulator with ts > 0, run_complete_simulation calls
\* progress() until t >= t_hard_limit and then returns, the clock being the
\* first of ts, 2*ts, ... that is >= t_hard_limit.
C14_RunTerminates == RunLooping ~> RunReturnedAtLimit

BelowLimit(snapshot) == Lt(snapshot.t, Limit)

\* C15: the history run_complete_simulation returns holds, in step order,
\* exactly the snapshots of the steps whose clock after the step is below
\* t_hard_limit, each with the balls as they were right after that step.
C15_HistoryIsStepsBelowLimit ==
    run.pc = "returned" =>
        /\ \A k \in 1 .. Len(run.log) : run.log[k].t = Mul(I(k), ts)
        /\ run.states = SelectSeq(run.log, BelowLimit)

\* a returned history of three or more different snapshots, the step that
\* reached t_hard_limit exactly left out
C15_Witness ==
    /\ run.pc = "returned"
    /\ Len(run.states) >= 3
    /\ Len(run.log) = Len(run.states) + 1
    /\ run.log[Len(run.log)].t = Limit
    /\ run.states[1].balls # run.states[2].balls
    /\ run.states[2].balls # run.states[3].balls

Increasing(states) ==
    \A k \in 1 .. Len(states) - 1 : Lt(states[k].t, states[k + 1].t)

\* C16: in the history run_complete_simulation builds and in the buffer of
\* GameState::update, after any number of pushes and evictions, the
\* timestamps are strictly increasing from the first entry to the last.
C16_TimestampsIncrease == Increasing(run.states) /\ Increasing(host.states)

\* the buffer of the host holds two snapshots after an eviction
C16_Witness ==
    /\ host.pc # "off"
    /\ calls >= 3
    /\ Len(host.states) = 2
    /\ Lt(host.states[1].t, host.states[2].t)

\* C17 (as claimed): once run_complete_simulation or the host loop has made
\* a progress() call, for any ts > 0, the history holds a snapshot.
C17_NonEmptyOnceStepped ==
    /\ run.pc # "off" /\ Len(run.log) >= 1 => run.states # <<>>
    /\ host.pc # "off" /\ calls >= 1 => host.states # <<>>

\* C17 (amended): the history of run_complete_simulation holds a snapshot
\* once a step has left the clock below t_hard_limit, and the buffer of the
\* host loop once it has made a progress() call.
C17_NonEmptyOnceSteppedBelowLimit ==
    /\ run.pc # "off" /\ (\E k \in 1 .. Len(run.log) : BelowLimit(run.log[k]))
         => run.states # <<>>
    /\ host.pc # "off" /\ calls >= 1 => host.states # <<>>

\* a returned history of one snapshot: the second step reached the limit
C17_Witness ==
    /\ run.pc = "returned"
    /\ Len(run.log) = 2
    /\ Len(run.states) = 1
    /\ Len(run.states[1].balls) >= 1

(***************************************************************************)
(* calc_interpolated_at, on the histories given to it directly (itp) and   *)
(* on the buffer of the host, which is interpolated at the elapsed time at *)
(* the end of every frame.                                                 *)
(***************************************************************************)
\* the host has interpolated its buffer and not touched it since
HostAnswered == host.pc = "idle" /\ host.frames >= 1 /\ host.states # <<>>

Answered(states, tq, result) ==
    \/ itp.asked /\ states = itp.states /\ tq = itp.query /\ result = itp.result
    \/ HostAnswered /\ states = host.states /\ tq = host.t_elapsed
         /\ result = host.simulation_state

\* every question asked and the answer it got
Answers ==
    {a \in {<<itp.states, itp.query, itp.result>>,
            <<host.states, host.t_elapsed, host.simulation_state>>} :
        Answered(a[1], a[2], a[3])}

First(states) == states[1]
Last(states) == states[Len(states)]
Inside(states, tq) ==
    states # <<>> /\ Lt(First(states).t, tq) /\ Lt(tq, Last(states).t)

\* C18: on a non-empty history calc_interpolated_at(t) returns timestamp t
\* with the first snapshot's balls unchanged when t <= the first time, and
\* with the last snapshot's balls unchanged when t >= the last time; on a
\* history of one snapshot every t returns that snapshot's balls.
C18_ClampsToEnds ==
    \A a \in Answers :
        LET states == a[1]
            tq == a[2]
            result == a[3]
        IN  states # <<>> =>
               /\ Leq(tq, First(states).t) =>
                     result = [fault |-> "none", t |-> tq, balls |-> First(states).balls]
               /\ Geq(tq, Last(states).t) =>
                     result = [fault |-> "none", t |-> tq, balls |-> Last(states).balls]
               /\ Len(states) = 1 => result.balls = states[1].balls

\* a query after the end of a history of three snapshots returns the last
\* balls, velocities included, which are not the first balls
C18_Witness ==
    /\ itp.asked
    /\ Len(itp.states) = 3
    /\ Gt(itp.query, Last(itp.states).t)
    /\ itp.result.t = itp.query
    /\ itp.result.balls = Last(itp.states).balls
    /\ itp.result.balls # First(itp.states).balls
    /\ itp.result.balls[1].u # zeros

\* p1 + w * (p2 - p1) with w = (t - t1) / (t2 - t1)
Lerp(p1, p2, t1, t2, tq) ==
    VAdd(p1, VScale(VSub(p2, p1), Div(Sub(tq, t1), Sub(t2, t1))))

\* the positions are those interpolated between the snapshots k and k + 1
LerpOf(states, k, tq, result) ==
    /\ Leq(states[k].t, tq)
    /\ Leq(tq, states[k + 1].t)
    /\ Len(result.balls) = Len(states[k].balls)
    /\ \A i \in 1 .. Len(result.balls) :
          result.balls[i].pos = Lerp(states[k].balls[i].pos, states[k + 1].balls[i].pos,
                                     states[k].t, states[k + 1].t, tq)

\* C19: for t strictly between the first and the last snapshot time every
\* ball's position is (1-w)*p1 + w*p2, w = (t-t1)/(t2-t1), for an adjacent
\* pair with t1 <= t <= t2; halfway between (0,0,0) and (2,0,0) it is
\* (1,0,0); at the time of an interior snapshot it is that snapshot's.
C19_LinearBetween ==
    \A a \in Answers :
        LET states == a[1]
            tq == a[2]
            result == a[3]
        IN  Inside(states, tq) =>
               /\ \E k \in 1 .. Len(states) - 1 : LerpOf(states, k, tq, result)
               /\ \A k \in 1 .. Len(states) - 1 :
                     /\ Mul(I(2), tq) = Add(states[k].t, states[k + 1].t)
                     /\ states[k].balls[1].pos = IVec(0, 0, 0)
                     /\ states[k + 1].balls[1].pos = IVec(2, 0, 0)
                     => result.balls[1].pos = IVec(1, 0, 0)
               /\ \A k \in 2 .. Len(states) - 1 :
                     states[k].t = tq =>
                        \A i \in 1 .. Len(result.balls) :
                            result.balls[i].pos = states[k].balls[i].pos

\* a query a quarter of the way from (0,0,0) to (2,0,0), inside a history of
\* three snapshots
C19_Witness ==
    /\ itp.asked
    /\ Len(itp.states) = 3
    /\ Inside(itp.states, itp.query)
    /\ \E k \in 1 .. 2 :
          /\ itp.states[k].balls[1].pos = IVec(0, 0, 0)
          /\ itp.states[k + 1].balls[1].pos = IVec(2, 0, 0)
          /\ Mul(I(4), Sub(itp.query, itp.states[k].t))
               = Sub(itp.states[k + 1].t, itp.states[k].t)
          /\ itp.result.balls[1].pos = Vec(Half, Zero, Zero)

\* C20: on a non-empty history with strictly increasing timestamps and t
\* strictly between the first and the last, the bracket search finds an
\* adjacent pair with state1.t <= t <= state2.t and does not panic.
C20_BracketFound ==
    \A a \in Answers :
        LET states == a[1]
            tq == a[2]
            result == a[3]
        IN  Increasing(states) /\ Inside(states, tq) =>
               /\ result.fault = "none"
               /\ \E k \in 1 .. Len(states) - 1 :
                     /\ Leq(states[k].t, tq)
                     /\ Leq(tq, states[k + 1].t)
                     /\ result.balls = InterpolatedBalls(states[k], states[k + 1], tq)

\* a query exactly at the time of the middle snapshot of three
C20_Witness ==
    /\ itp.asked
    /\ Len(itp.states) = 3
    /\ itp.query = itp.states[2].t
    /\ itp.result.fault = "none"
    /\ itp.result.balls[1].pos = itp.states[2].balls[1].pos

\* C21: calc_interpolated_at called on a history with zero snapshots panics
\* for every query time and returns no state.
C21_EmptyHistoryPanics ==
    itp.asked /\ itp.states = <<>> =>
        itp.result = [fault |-> "empty", t |-> itp.query, balls |-> <<>>]

\* the empty history was queried at a negative time and the call panicked
C21_Witness ==
    /\ itp.asked
    /\ itp.states = <<>>
    /\ Lt(itp.query, Zero)
    /\ itp.result.fault = "empty"

(***************************************************************************)
(* The frame of GameState::update: the inner loop, then the interpolation. *)
(***************************************************************************)
\* the step is the host's call of calc_interpolated_at
HostInterpolates ==
    host.pc = "looping" /\ host'.pc = "idle" /\ host.states # <<>>

\* C22: in a frame of GameState::update progress() is called only while
\* simulator.t < t_elapsed_in_shot, and calc_interpolated_at is called only
\* once simulator.t >= t_elapsed_in_shot, on the buffer as the loop left it
\* and with that same elapsed time.
C22_StepsThenInterpolates ==
    [][/\ scenario = "host" /\ calls' = calls + 1 =>
             host.pc = "looping" /\ Lt(t, host.t_elapsed)
       /\ host'.simulation_state # host.simulation_state => HostInterpolates
       /\ HostInterpolates =>
             /\ Geq(t, host.t_elapsed)
             /\ host'.simulation_state.t = host.t_elapsed
             /\ host'.simulation_state = calc_interpolated_at(host.states, host.t_elapsed)
             /\ calls' = calls /\ t' = t]_vars

\* a frame with elapsed time 5/2 and ts = 1: three progress() calls, then the
\* interpolation at 5/2 with the clock at 3
C22_Witness ==
    /\ HostAnswered
    /\ host.frames = 2
    /\ calls = 3
    /\ t = I(3)
    /\ host.t_elapsed = <<5, 2>>
    /\ host.simulation_state.t = <<5, 2>>

(***************************************************************************)
(* The hard limit.                                                         *)
(***************************************************************************)
\* the part of C23 that run_complete_simulation keeps: it makes no
\* progress() call once the clock has reached t_hard_limit
C23_RunHaltsAtLimit ==
    [][scenario = "run" /\ Geq(t, Limit) => t' = t /\ balls' = balls]_vars

\* C23: a newly constructed Simulator has clock 0 and hard limit 30, and
\* once the clock has reached the hard limit no operation, the loop of
\* run_complete_simulation or a progress() of the host loop, advances the
\* clock or changes the balls.
C23_HaltedAtLimit ==
    [][/\ calls = 0 => t = Zero /\ Limit = I(30)
       /\ Geq(t, Limit) => t' = t /\ balls' = balls]_vars

(***************************************************************************)
(* The exchange of a resolved ball-ball collision.                         *)
(***************************************************************************)
\* the part of ball k's velocity perpendicular to the line of centers of i, j
Perp(bs, k, i, j) == VSub(bs[k].u, Along(bs, k, i, j))

\* u_i' = u_i - comp_i + rest * comp_j and u_j' = u_j - comp_j + rest * comp_i,
\* the components taken from before, and the perpendicular parts kept
Exchanged(before, after, rest, i, j) ==
    /\ after[i].u = VAdd(VSub(before[i].u, Along(before, i, i, j)),
                         VScale(Along(before, j, i, j), rest))
    /\ after[j].u = VAdd(VSub(before[j].u, Along(before, j, i, j)),
                         VScale(Along(before, i, i, j), rest))
    /\ Perp(after, i, i, j) = Perp(before, i, i, j)
    /\ Perp(after, j, i, j) = Perp(before, j, i, j)

\* the claim of C24 for the pass of jlib.rs
C24_JlibExchange ==
    calls >= 1 =>
        \A i \in 1 .. Len(last.pre), j \in 1 .. Len(last.pre) :
            /\ i < j
            /\ BallBallColliding(last.pre, world_conf, i, j)
            /\ Isolated(last.pre, world_conf.ball_radius, i, j)
            => Exchanged(last.pre, last.bb, world_conf.ball_ball_rest, i, j)

\* the claim of C24 for the pass of lib.rs, which has no restitution factor
C24_LibExchange ==
    lib_calls >= 1 =>
        \A i \in 1 .. Len(lib_last.vel), j \in 1 .. Len(lib_last.vel) :
            /\ i < j
            /\ LibBallBallColliding(lib_last.vel, lib_sim.world_conf, i, j)
            => Exchanged(lib_last.vel, lib_last.bb, One, i, j)

\* C24: a resolved ball-ball collision with unit normal n leaves
\* u_i' = u_i - comp_i + e_bb * comp_j and u_j' = u_j - comp_j + e_bb * comp_i,
\* comp_k = dot(u_k, n) * n from before the exchange, and keeps the parts of
\* both velocities perpendicular to n; stated for both passes the claim
\* cites.
C24_Exchange == C24_JlibExchange /\ C24_LibExchange

\* an oblique collision of the jlib.rs pass with ball_ball_rest = 1/2
C24_JlibWitness ==
    /\ calls >= 1
    /\ world_conf.ball_ball_rest = Half
    /\ Len(last.pre) = 2
    /\ BallBallColliding(last.pre, world_conf, 1, 2)
    /\ Perp(last.pre, 1, 1, 2) # zeros
    /\ Along(last.pre, 1, 1, 2) # zeros
    /\ Along(last.pre, 2, 1, 2) # zeros
    /\ last.bb[1].u # last.pre[1].u

(***************************************************************************)
(* What the passes of progress() leave alone.                              *)
(***************************************************************************)
SameSpin(a, b) == a.urot_axis = b.urot_axis /\ a.urot_angle = b.urot_angle

\* C25: a progress() call keeps the number of balls and every ball's
\* urot_axis and urot_angle through each of its passes, so they stay as
\* constructed, and rot is the same after the ball-ball, ball-cloth, snap and
\* gravity passes as before the call: only the integration changes it.
C25_SpinKept ==
    [][calls' = calls + 1 =>
         /\ last'.pre = balls
         /\ last'.vel = balls'
         /\ \A stage \in {last'.bb, last'.bc, last'.snap, last'.grav, last'.vel} :
               /\ Len(stage) = Len(balls)
               /\ \A i \in 1 .. Len(balls) : SameSpin(stage[i], balls[i])
         /\ \A stage \in {last'.bb, last'.bc, last'.snap, last'.grav} :
               \A i \in 1 .. Len(balls) : stage[i].rot = balls[i].rot]_vars

\* a spinning ball that collided with the other ball and with the cloth in
\* the last progress(), was moved by the spin adjustment and turned by the
\* integration
C25_Witness ==
    /\ calls >= 1
    /\ Len(balls) = 2
    /\ balls[1].urot_angle # Zero
    /\ last.bb[1].u # last.pre[1].u
    /\ last.bc[1].u # last.bb[1].u
    /\ last.bc[1].pos # last.bb[1].pos
    /\ last.grav[1].rot = last.pre[1].rot
    /\ last.vel[1].rot # last.pre[1].rot
    /\ SameSpin(balls[1], last.pre[1])

\* the spin axis has a positive component along the cloth normal
SpinsAboutNormal(ball) == Gt(ball.urot_axis.z, Zero)

C27_SpinMovesHorizontally ==
    calls >= 1 =>
        \A i \in 1 .. Len(last.bb) :
            /\ last.bc[i].pos # last.bb[i].pos =>
                  /\ MovingDownOnCloth(last.bb[i], world_conf.ball_radius)
                  /\ Gt(dot(last.bb[i].urot_axis, ClothNormal), Zero)
            /\ last.bc[i].pos.z = last.bb[i].pos.z
            /\ last.bc[i].u =
                  IF MovingDownOnCloth(last.bb[i], world_conf.ball_radius)
                  THEN [last.bb[i].u EXCEPT
                          !.z = Mul(Neg(world_conf.ball_cloth_rest), last.bb[i].u.z)]
                  ELSE last.bb[i].u
            /\ Leq(dot(last.bb[i].urot_axis, ClothNormal), Zero) =>
                  last.bc[i].pos = last.bb[i].pos

\* a ball spinning about a tilted axis that fell onto the cloth: it is moved
\* in x and in y, its pos.z kept and its velocity reflected
C27_Witness ==
    /\ calls >= 1
    /\ \E i \in 1 .. Len(last.bb) :
          /\ Lt(last.bb[i].u.z, Zero)
          /\ last.bb[i].urot_axis = AxisTilt
          /\ last.bc[i].pos.x # last.bb[i].pos.x
          /\ last.bc[i].pos.y # last.bb[i].pos.y
          /\ last.bc[i].pos.z = last.bb[i].pos.z
          /\ Gt(last.bc[i].u.z, Zero)

\* a ball spinning about an axis that points into the cloth collided with
\* the cloth and was not moved
C27_WitnessAxisDown ==
    /\ calls >= 1
    /\ \E i \in 1 .. Len(last.bb) :
          /\ last.bb[i].urot_axis = AxisDown
          /\ last.bb[i].urot_angle # Zero
          /\ Lt(last.bb[i].u.z, Zero)
          /\ Gt(last.bc[i].u.z, Zero)
          /\ last.bc[i].pos = last.bb[i].pos

(***************************************************************************)
(* The buffer of GameState::update.                                        *)
(***************************************************************************)
\* the last two entries of a sequence (all of it when it has fewer)
LastTwo(seq) == IF Len(seq) <= 2 THEN seq ELSE SubSeq(seq, Len(seq) - 1, Len(seq))

\* C28: with elapsed times that do not decrease, the buffer of
\* GameState::update holds at most 2 snapshots, they are the most recent ones
\* progress() returned, in order, the last one has the timestamp
\* simulator.t, and whenever calc_interpolated_at is called the buffer is not
\* empty and, if it holds two snapshots, the first one's time < the query
\* time <= the last one's time, so the call does not panic.
C28_HostBuffer ==
    [][/\ Len(host'.states) <= 2
       /\ host'.states # <<>> => Last(host'.states).t = t'
       /\ scenario = "host" /\ calls' = calls + 1 =>
             host'.states = LastTwo(Append(host.states, ret'))
       /\ scenario = "host" /\ calls' = calls => host'.states = host.states
       /\ HostInterpolates =>
             /\ host.states # <<>>
             /\ Len(host.states) = 2 =>
                   /\ Lt(host.states[1].t, host.t_elapsed)
                   /\ Leq(host.t_elapsed, host.states[2].t)
             /\ host'.simulation_state.fault = "none"]_vars

\* the third frame interpolated a buffer of two snapshots, after an eviction,
\* at a time strictly between them
C28_Witness ==
    /\ HostAnswered
    /\ host.frames = 3
    /\ calls >= 3
    /\ Len(host.states) = 2
    /\ host.states[2] = ret
    /\ Lt(host.states[1].t, host.t_elapsed)
    /\ Lt(host.t_elapsed, host.states[2].t)
    /\ host.simulation_state.fault = "none"
    /\ host.simulation_state.balls # host.states[2].balls

====
